---- MODULE Spec2Model ----
(***************************************************************************)
(* The entity registry and reference resolver of sphinx_ros                *)
(* (src/sphinx_ros/domain.py, src/sphinx_ros/utils.py), with the two       *)
(* configuration values that src/sphinx_ros/__init__.py registers.         *)
(*                                                                         *)
(* The registry is RosDomain.data: the container tables data['package']    *)
(* and data['node'] (name -> (docname, anchor)) and the component tables   *)
(* data['package_components'] and data['node_components']                  *)
(* (container -> kind -> name -> (docname, fullname)).  Python dicts are    *)
(* functions whose DOMAIN is the set of keys present, so that an inner     *)
(* dict emptied by clear_doc stays in the table as the code leaves it.     *)
(* Strings are strings: anchors, fullnames, URLs and warning texts are     *)
(* built by concatenation as the code builds them.                         *)
(***************************************************************************)
EXTENDS Naturals, Sequences, FiniteSets, TLC

(* ------------------------------ bounds -------------------------------- *)

\* The number of registry operations (add_container, add_component,
\* clear_doc) of one behaviour.
MaxOps == 3

(* ------------------------------ inputs -------------------------------- *)

\* env.docname: the documents of the build.
Docs == {"docA", "docB"}

\* The container types: clear_doc and resolve_xref go through ('node', 'package').
ContainerTypes == {"node", "package"}

\* The container names the directives register.
ContainerNames == {"geometry_msgs"}

\* The container names a reference carries as its context: a registered
\* name, or the empty name a role stores when no context is set.
ContextNames == ContainerNames \cup {""}

\* Component names (signatures) and reference targets.
ComponentNames == {"Pose"}

\* The container types add_component is called with: the two it knows and
\* one it does not.
ComponentContainerTypes == {"package", "node", "launch"}

\* Component kinds (the directives' short_type), and the role name 'field',
\* which add_component accepts as any other string.
ComponentKinds == {"msg", "srv", "param", "field"}

\* The reference kinds resolve_xref is called with (role names).
RefTypes == {"msg", "srv", "action", "field", "param", "pkg", "package", "node"}

\* The targets of a reference: container names for the container roles,
\* component names for the others.
RefTargets(typ) ==
    IF typ \in {"pkg", "package", "node"} THEN ContainerNames ELSE ComponentNames

\* The values conf.py gives ros_msg_reference_version: the default that
\* setup() registers, and another.
Versions == {"melodic", "humble"}

(* --------------------------- python dicts ----------------------------- *)

EmptyDict == [k \in {} |-> {}]

\* key in d
HasKey(d, k) == k \in DOMAIN d

\* d.get(k, default)
DictGet(d, k, default) == IF k \in DOMAIN d THEN d[k] ELSE default

\* d[k] = v
DictSet(d, k, v) == [x \in (DOMAIN d) \cup {k} |-> IF x = k THEN v ELSE d[x]]

\* d.setdefault(k, default)
SetDefault(d, k, default) == IF k \in DOMAIN d THEN d ELSE DictSet(d, k, default)

\* del d[k] for every k of ks
DictDel(d, ks) == [x \in (DOMAIN d) \ ks |-> d[x]]

(* ----------------------------- the state ------------------------------ *)

VARIABLES
    data,    \* RosDomain.data
    config,  \* app.config: the values add_config_value registers
    last,    \* the last call: its name, document, arguments and result, and
             \* the registry it was made on
    nops,    \* the number of registry operations so far
    live,    \* history: key -> the document of the key's most recent
             \* registration, while that document was not evicted since
    ref_context, \* env.ref_context: 'ros:node' and 'ros:package', each absent
                 \* or the name of the current container of that type
    declared     \* history, for the documents it is recorded for (those
                 \* of its domain): document -> the keys of the registry
                 \* that its directives registered since the host last
                 \* evicted it

vars == <<data, config, last, nops, live, ref_context, declared>>

\* RosDomain.initial_data
initial_data ==
    [objects |-> EmptyDict,
     package |-> EmptyDict,
     node |-> EmptyDict,
     node_components |-> EmptyDict,
     package_components |-> EmptyDict]

\* f'{c}_components'
ComponentsKey(c) == IF c = "node" THEN "node_components" ELSE "package_components"

(* ---------------------------- the registry ---------------------------- *)

\* Fault: the anchor joined name first.
ContainerAnchorNameFirst(typ, name) == name \o "." \o typ

\* '.'.join((typ, name))
ContainerAnchor(typ, name) == typ \o "." \o name

\* Fault: the fullname joined kind first.
ComponentFullnameKindFirst(container_name, typ, name) ==
    typ \o "." \o container_name \o "." \o name

\* '.'.join((container_name, typ, name))
ComponentFullname(container_name, typ, name) ==
    container_name \o "." \o typ \o "." \o name

\* Fault: add_container keeping the entry a key already holds.
add_containerKeepFirst(d, docname, name, typ) ==
    LET anchor == ContainerAnchor(typ, name)
    IN  [data |-> [d EXCEPT ![typ] = SetDefault(d[typ], name, <<docname, anchor>>)],
         ret |-> anchor]

\* RosDomain.add_container: the registry after the call and the anchor returned.
add_container(d, docname, name, typ) ==
    LET anchor == ContainerAnchor(typ, name)
    IN  [data |-> [d EXCEPT ![typ] = DictSet(d[typ], name, <<docname, anchor>>)],
         ret |-> anchor]

\* Fault: add_component without its test on container_typ, writing the
\* component whatever the container type.
add_componentAnyType(d, docname, container_typ, container_name, typ, name) ==
    LET fullname == ComponentFullname(container_name, typ, name)
        value == <<docname, fullname>>
        key == ComponentsKey(container_typ)
        containers == SetDefault(d[key], container_name, EmptyDict)
        kinds == SetDefault(containers[container_name], typ, EmptyDict)
        names == DictSet(kinds[typ], name, value)
    IN  [data |-> [d EXCEPT ![key] =
                      DictSet(containers, container_name,
                              DictSet(kinds, typ, names))],
         ret |-> fullname]

\* RosDomain.add_component: the registry after the call and the fullname returned.
add_component(d, docname, container_typ, container_name, typ, name) ==
    LET fullname == ComponentFullname(container_name, typ, name)
        value == <<docname, fullname>>
        key == ComponentsKey(container_typ)
        components == d[key]
        containers == SetDefault(components, container_name, EmptyDict)
        kinds == SetDefault(containers[container_name], typ, EmptyDict)
        names == DictSet(kinds[typ], name, value)
    IN  [data |-> IF container_typ \in {"package", "node"}
                  THEN [d EXCEPT ![key] =
                            DictSet(containers, container_name,
                                    DictSet(kinds, typ, names))]
                  ELSE d,
         ret |-> fullname]

\* Fault: the inner loop without its test f == docname, emptying every kind
\* of a visited container.
ClearComponentsAll(cs, docname) == [k \in DOMAIN cs |-> EmptyDict]

\* The inner loop of clear_doc: the kind -> name -> value dicts of one
\* container without the entries of docname; the dicts themselves stay.
ClearComponents(cs, docname) ==
    [k \in DOMAIN cs |->
        DictDel(cs[k], {n \in DOMAIN cs[k] : cs[k][n][1] = docname})]

\* Fault: the pass deleting, with a container of docname, the component
\* tables under its name, whichever documents their entries come from.
ClearContainerTypeWithComponents(d, c, docname) ==
    LET names == DOMAIN d[c]
        key == ComponentsKey(c)
        gone == {name \in names : d[c][name][1] = docname}
    IN  [d EXCEPT
            ![c] = DictDel(d[c], gone),
            ![key] = [name \in DOMAIN d[key] \ gone |->
                        IF name \in names
                        THEN ClearComponents(d[key][name], docname)
                        ELSE d[key][name]]]

\* One pass of clear_doc's outer loop, for container type c: the names it
\* visits are those of the container table data[c], as listed before the pass.
ClearContainerType(d, c, docname) ==
    LET names == DOMAIN d[c]
        key == ComponentsKey(c)
    IN  [d EXCEPT
            ![c] = DictDel(d[c], {name \in names : d[c][name][1] = docname}),
            ![key] = [name \in DOMAIN d[key] |->
                        IF name \in names
                        THEN ClearComponents(d[key][name], docname)
                        ELSE d[key][name]]]

\* RosDomain.clear_doc
clear_doc(d, docname) ==
    ClearContainerType(ClearContainerType(d, "node", docname), "package", docname)

(* ---------------------------- the resolver ---------------------------- *)

\* The default of interface_reference's version parameter.
DefaultVersion == "galactic"

\* utils.interface_reference
interface_reference(pkg, typ, name, version) ==
    "http://docs.ros2.org/" \o version \o "/api/" \o pkg \o "/" \o typ
        \o "/" \o name \o ".html"

\* The results of resolve_xref.
\* make_refnode(builder, fromdocname, file_name, fullname, contnode, fullname)
make_refnode(file_name, fullname) ==
    [kind |-> "internal", refdoc |-> file_name, refid |-> fullname,
     refuri |-> "", warnings |-> << >>]

\* nodes.reference() with refuri
ExternalReference(uri) ==
    [kind |-> "external", refdoc |-> "", refid |-> "", refuri |-> uri,
     warnings |-> << >>]

\* return None, after the warnings given
ReturnNone(warnings) ==
    [kind |-> "none", refdoc |-> "", refid |-> "", refuri |-> "",
     warnings |-> warnings]

\* an exception leaving resolve_xref
Raised(exception) ==
    [kind |-> exception, refdoc |-> "", refid |-> "", refuri |-> "",
     warnings |-> << >>]

\* f"Could not find {typ} {target} for {container_type} {container}"
WarningText(typ, target, container_type, container) ==
    "Could not find " \o typ \o " " \o target \o " for " \o container_type
        \o " " \o container

\* Fault: the interface branch treating a miss as the component branch does,
\* with a warning and None.
ResolveInterfaceWarn(d, typ, target, node) ==
    IF ~HasKey(node, "ros:package")
    THEN Raised("KeyError")
    ELSE LET package == node["ros:package"]
             kinds == DictGet(d.package_components, package, EmptyDict)
             names == DictGet(kinds, typ, EmptyDict)
         IN  IF HasKey(names, target)
             THEN make_refnode(names[target][1], names[target][2])
             ELSE ReturnNone(<<WarningText(typ, target, "package", package)>>)

\* The interface branch of resolve_xref (typ in ('msg', 'srv', 'action')).
ResolveInterface(d, typ, target, node) ==
    IF ~HasKey(node, "ros:package")
    THEN Raised("KeyError")
    ELSE LET package == node["ros:package"]
             kinds == DictGet(d.package_components, package, EmptyDict)
             names == DictGet(kinds, typ, EmptyDict)
         IN  IF HasKey(names, target)
             THEN make_refnode(names[target][1], names[target][2])
             ELSE ExternalReference(
                      interface_reference(package, typ, target, DefaultVersion))

\* Fault: the component lookup without its try/except KeyError.
ResolveComponentNoTry(d, container_type, typ, target, node) ==
    LET container == node["ros:" \o container_type]
        components == d[ComponentsKey(container_type)]
    IN  IF /\ HasKey(components, container)
           /\ HasKey(components[container], typ)
           /\ HasKey(components[container][typ], target)
        THEN make_refnode(components[container][typ][target][1],
                          components[container][typ][target][2])
        ELSE Raised("KeyError")

\* The body of the loop over ('node', 'package') when key is in node.
ResolveComponent(d, container_type, typ, target, node) ==
    LET container == node["ros:" \o container_type]
        components == d[ComponentsKey(container_type)]
    IN  IF /\ HasKey(components, container)
           /\ HasKey(components[container], typ)
           /\ HasKey(components[container][typ], target)
        THEN make_refnode(components[container][typ][target][1],
                          components[container][typ][target][2])
        ELSE ReturnNone(<<WarningText(typ, target, container_type, container)>>)

\* Fault: the container lookup without the mapping of pkg to package.
ResolveContainerNoAlias(d, typ, target) ==
    IF HasKey(d, typ) /\ HasKey(d[typ], target)
    THEN make_refnode(d[typ][target][1], d[typ][target][2])
    ELSE ReturnNone(<< >>)

\* The last part of resolve_xref: a reference without container context.
ResolveContainer(d, typ, target) ==
    LET typ2 == IF typ = "pkg" THEN "package" ELSE typ
    IN  IF HasKey(d, typ2) /\ HasKey(d[typ2], target)
        THEN make_refnode(d[typ2][target][1], d[typ2][target][2])
        ELSE ReturnNone(<< >>)

\* Fault: a field reference looked up under its own kind.
RemapFieldNot(typ) == typ

\* The first statement of resolve_xref: a field reference is looked up as msg.
RemapField(typ) == IF typ = "field" THEN "msg" ELSE typ

\* RosDomain.resolve_xref
resolve_xref(d, typ, target, node) ==
    LET typ1 == RemapField(typ)
    IN  IF typ1 \in {"msg", "srv", "action"}
        THEN ResolveInterface(d, typ1, target, node)
        ELSE IF HasKey(node, "ros:node")
        THEN ResolveComponent(d, "node", typ1, target, node)
        ELSE IF HasKey(node, "ros:package")
        THEN ResolveComponent(d, "package", typ1, target, node)
        ELSE ResolveContainer(d, typ1, target)

\* Fault: the lookup of the interface branch with setdefault in the place
\* of get, leaving an empty dict for a package and a kind it did not find.
InterfaceLookupSetDefault(d, package, typ) ==
    LET components == SetDefault(d.package_components, package, EmptyDict)
    IN  [d EXCEPT !.package_components =
            DictSet(components, package,
                    SetDefault(components[package], typ, EmptyDict))]

\* The registry after the lookup of the interface branch,
\* self.data['package_components'].get(package, {}).get(typ, {}).get(target):
\* get returns its default and stores nothing.
InterfaceLookup(d, package, typ) == d

\* The registry after resolve_xref: the interface branch looks up with get;
\* the component branch indexes plain dicts, which raises KeyError on a
\* missing key and stores nothing; the container branch tests with `in`.
RegistryAfterResolveXref(d, typ, target, node) ==
    IF RemapField(typ) \in {"msg", "srv", "action"} /\ HasKey(node, "ros:package")
    THEN InterfaceLookup(d, node["ros:package"], RemapField(typ))
    ELSE d

\* The pending_xref nodes: each of 'ros:node' and 'ros:package' is absent or
\* holds a container name.
RefNodes ==
    UNION {[s -> ContextNames] : s \in SUBSET {"ros:node", "ros:package"}}

(* ------------------------------ the roles ----------------------------- *)

\* Python's str methods, on strings as sequences of characters.
\* s.startswith(c), for a one-character c
StartsWith(s, c) == Len(s) >= 1 /\ SubSeq(s, 1, 1) = c

\* s.lstrip(chars)
RECURSIVE LStrip(_, _)
LStrip(s, chars) ==
    IF Len(s) >= 1 /\ SubSeq(s, 1, 1) \in chars
    THEN LStrip(SubSeq(s, 2, Len(s)), chars)
    ELSE s

\* s.split(sep), for a one-character sep: the list of the parts
RECURSIVE Split(_, _)
Split(s, sep) ==
    LET at == {i \in 1..Len(s) : SubSeq(s, i, i) = sep}
    IN  IF at = {}
        THEN <<s>>
        ELSE LET i == CHOOSE i \in at : \A j \in at : i <= j
             IN  <<SubSeq(s, 1, i - 1)>> \o Split(SubSeq(s, i + 1, Len(s)), sep)

\* sep.join(parts)
RECURSIVE Join(_, _)
Join(sep, parts) ==
    IF parts = << >> THEN ""
    ELSE IF Len(parts) = 1 THEN parts[1]
    ELSE parts[1] \o sep \o Join(sep, Tail(parts))

\* The characters \d matches.
Digits == {"0", "1", "2", "3", "4", "5", "6", "7", "8", "9"}

\* s matches \d*
IsDigits(s) == \A i \in 1..Len(s) : SubSeq(s, i, i) \in Digits

\* The roles of RosDomain.roles that are ComponentRoles, one of each class:
\* the class, and the attributes key, sep, show_container and show_type of
\* the instance.
Roles ==
    [param |-> [class |-> "NodeComponentRole", key |-> "ros:node", sep |-> ":",
                show_container |-> FALSE, show_type |-> ""],
     launch |-> [class |-> "PackageComponentRole", key |-> "ros:package",
                 sep |-> "/", show_container |-> FALSE, show_type |-> ""],
     msg |-> [class |-> "InterfaceRole", key |-> "ros:package", sep |-> "/",
              show_container |-> TRUE, show_type |-> "msg"],
     field |-> [class |-> "FieldRole", key |-> "ros:package", sep |-> "/",
                show_container |-> TRUE, show_type |-> "msg"]]

RoleNames == DOMAIN Roles

\* The classes that inherit InterfaceRole's get_container and get_target.
InterfaceRoleClasses == {"InterfaceRole", "FieldRole"}

\* ComponentRole.get_container
ComponentRole_get_container(parts) ==
    IF Len(parts) = 2
    THEN [target |-> parts[2], value |-> parts[1], errors |-> << >>]
    ELSE [target |-> parts[1], value |-> "", errors |-> << >>]

\* InterfaceRole.get_container
InterfaceRole_get_container(role, parts) ==
    IF Len(parts) = 2
    THEN [target |-> parts[2], value |-> parts[1], errors |-> << >>]
    ELSE IF Len(parts) = 3
    THEN [target |-> parts[3], value |-> parts[1],
          errors |-> IF parts[2] # role.show_type
                     THEN << "Got different interface type " \o parts[2]
                                 \o " vs " \o role.show_type >>
                     ELSE << >>]
    ELSE [target |-> parts[1], value |-> "", errors |-> << >>]

\* self.get_container(parts)
get_container(role, parts) ==
    IF role.class \in InterfaceRoleClasses
    THEN InterfaceRole_get_container(role, parts)
    ELSE ComponentRole_get_container(parts)

\* ComponentRole.get_title
get_title(role, title, target, container) ==
    LET show_container == IF role.show_container
                          THEN ~StartsWith(title, "~")
                          ELSE StartsWith(title, "@")
    IN  IF show_container /\ container # ""
        THEN Join(role.sep, SelectSeq(<<container, role.show_type, target>>,
                                      LAMBDA x : x # ""))
        ELSE target

\* Fault: the pattern without <?=?, matching [] and [N] only.
IsArrayMarkerDigitsOnly(m) ==
    /\ Len(m) >= 2
    /\ SubSeq(m, 1, 1) = "["
    /\ SubSeq(m, Len(m), Len(m)) = "]"
    /\ IsDigits(SubSeq(m, 2, Len(m) - 1))

\* m matches \[<?=?\d*\]
IsArrayMarker(m) ==
    /\ Len(m) >= 2
    /\ SubSeq(m, 1, 1) = "["
    /\ SubSeq(m, Len(m), Len(m)) = "]"
    /\ LET inner == SubSeq(m, 2, Len(m) - 1)
           rest1 == IF StartsWith(inner, "<")
                    THEN SubSeq(inner, 2, Len(inner)) ELSE inner
           rest2 == IF StartsWith(rest1, "=")
                    THEN SubSeq(rest1, 2, Len(rest1)) ELSE rest1
       IN  IsDigits(rest2)

\* rs = re.split(r'\[<?=?\d*\]$', target); if len(rs) == 2: target = rs[0]
StripArray(target) ==
    LET at == {i \in 1..Len(target) : IsArrayMarker(SubSeq(target, i, Len(target)))}
    IN  IF at = {}
        THEN target
        ELSE SubSeq(target, 1, (CHOOSE i \in at : \A j \in at : i <= j) - 1)

\* m matches <=\d+
IsStringLength(m) ==
    /\ Len(m) >= 3
    /\ SubSeq(m, 1, 2) = "<="
    /\ IsDigits(SubSeq(m, 3, Len(m)))

\* rs = re.split(r'<=\d+$', target)
\* if len(rs) == 2 and rs[0] in ('string', 'wstring'): target = rs[0]
StripStringLength(target) ==
    LET at == {i \in 1..Len(target) : IsStringLength(SubSeq(target, i, Len(target)))}
        rs0 == SubSeq(target, 1, (CHOOSE i \in at : \A j \in at : i <= j) - 1)
    IN  IF at # {} /\ rs0 \in {"string", "wstring"} THEN rs0 ELSE target

\* InterfaceRole.get_target
InterfaceRole_get_target(target) == StripStringLength(StripArray(target))

\* self.get_target(target): ComponentRole's returns the target as it is.
get_target(role, target) ==
    IF role.class \in InterfaceRoleClasses
    THEN InterfaceRole_get_target(target)
    ELSE target

\* Fault: process_link taking the current context even when the text names
\* a container.
ComponentRole_process_linkContextFirst(role, context, has_explicit_title, title, target) ==
    LET stripped == IF ~has_explicit_title
                    THEN LStrip(target, {"~", "@"}) ELSE target
        c == get_container(role, Split(stripped, role.sep))
        explicit == c.value # ""
        value == DictGet(context, role.key, c.value)
        refnode == DictSet(DictSet(EmptyDict, "ros:explicit_container", explicit),
                           role.key, value)
        target2 == get_target(role, c.target)
    IN  [title |-> IF ~has_explicit_title
                   THEN get_title(role, title, target2, value) ELSE title,
         target |-> target2, refnode |-> refnode, errors |-> c.errors]

\* ComponentRole.process_link: the title and the target returned, the
\* attributes set on refnode, and the errors logged.
ComponentRole_process_link(role, context, has_explicit_title, title, target) ==
    LET stripped == IF ~has_explicit_title
                    THEN LStrip(target, {"~", "@"}) ELSE target
        c == get_container(role, Split(stripped, role.sep))
        explicit == c.value # ""
        value == IF explicit THEN c.value ELSE DictGet(context, role.key, "")
        refnode == DictSet(DictSet(EmptyDict, "ros:explicit_container", explicit),
                           role.key, value)
        target2 == get_target(role, c.target)
    IN  [title |-> IF ~has_explicit_title
                   THEN get_title(role, title, target2, value) ELSE title,
         target |-> target2, refnode |-> refnode, errors |-> c.errors]

\* FieldRole.primitives
primitives ==
    {"bool", "byte", "char", "float32", "float64", "int8", "uint8", "int16",
     "uint16", "int32", "uint32", "int64", "uint64", "string", "wstring"}

\* FieldRole.process_link
FieldRole_process_link(role, context, has_explicit_title, title, target) ==
    LET r == ComponentRole_process_link(role, context, has_explicit_title,
                                        title, target)
        primitive == r.target \in primitives
    IN  [title |-> IF ~primitive THEN r.title ELSE title,
         target |-> r.target,
         refnode |-> DictSet(r.refnode, "ros:primitive", primitive),
         errors |-> r.errors]

\* The characters that toggle the container in the title.
Prefixes == {"", "~", "@"}

\* Type names: a message, and three primitives.
BaseTypes == {"String", "string", "wstring", "int32"}

\* What follows a type name: nothing, an array marker, a string length, both.
Markers == {"", "[]", "[10]", "[<=10]", "<=64", "<=64[]"}

\* The qualifiers written before the target of an interface role: none, a
\* package, a package and a kind, and one segment more.
InterfaceQualifiers ==
    {"", "std_msgs/", "std_msgs/msg/", "std_msgs/srv/", "std_msgs/msg/extra/"}

\* The names of the components a component role refers to.
ComponentTargets == {"speed"}

\* The texts written in the role named name.
Texts(name) ==
    IF Roles[name].class \in InterfaceRoleClasses
    THEN {p \o q \o b \o m : p \in Prefixes, q \in InterfaceQualifiers,
                             b \in BaseTypes, m \in Markers}
    ELSE {p \o q \o t : p \in Prefixes,
                        q \in {"", "talker" \o Roles[name].sep,
                               "a" \o Roles[name].sep \o "b" \o Roles[name].sep},
                        t \in ComponentTargets}

\* The titles of references written with an explicit title.
ExplicitTitles == {"the title"}

\* role.process_link(env, refnode, has_explicit_title, title, target)
process_link(role, context, has_explicit_title, title, target) ==
    IF role.class = "FieldRole"
    THEN FieldRole_process_link(role, context, has_explicit_title, title, target)
    ELSE ComponentRole_process_link(role, context, has_explicit_title, title,
                                    target)

(* --------------------------- the directives --------------------------- *)

\* Fault: the context of a container directive ending with its content.
before_contentScoped(context, typ, name) == context

\* ContainerDirective.before_content: the directive's name becomes the
\* current container of its type; no after_content takes it back.
before_content(context, typ, name) == DictSet(context, "ros:" \o typ, name)

\* The names written as the argument of a container directive or of a
\* currentpackage / currentnode directive.
DirectiveNames == {"geometry_msgs", "talker", "None"}

\* The component directives declared: a node component and a package
\* component, with the container_name and the short_type of their classes.
ComponentDirectives ==
    [parameter |-> [container_name |-> "node", short_type |-> "param"],
     executable |-> [container_name |-> "package", short_type |-> "exec"]]

\* The options of a component directive of the container type
\* container_name: none, or the container.
ComponentOptions(container_name) ==
    {EmptyDict} \cup {DictSet(EmptyDict, container_name, "listener")}

\* ComponentDescription.get_container: the container option of the
\* directive, or else the current container, or else ''.
ComponentDescription_get_container(container_name, options, context, sig) ==
    [container |-> DictGet(options, container_name,
                           DictGet(context, "ros:" \o container_name, "")),
     sig |-> sig, warnings |-> << >>]

\* InterfaceDescription.get_container: the container and the name a
\* signature is registered under, and the warnings logged.
InterfaceDescription_get_container(short_type, options, context, sig) ==
    LET super == ComponentDescription_get_container("package", options,
                                                    context, sig)
        rs == Split(super.sig, "/")
    IN  IF Len(rs) = 2
        THEN [container |-> rs[1], sig |-> rs[2], warnings |-> << >>]
        ELSE IF Len(rs) = 3
        THEN [container |-> rs[1], sig |-> rs[3],
              warnings |-> IF rs[2] # short_type
                           THEN << "Malformed interface signature: expected "
                                       \o short_type \o ", got " \o rs[2] >>
                           ELSE << >>]
        ELSE IF Len(rs) > 3
        THEN [container |-> super.container, sig |-> super.sig,
              warnings |-> << "Malformed interface signature " \o super.sig >>]
        ELSE super

\* InterfaceDescription.title
InterfaceDescription_title(short_type, container, sig) ==
    container \o "/" \o short_type \o "/" \o sig

\* The short_type of the interface directives declared.
InterfaceKinds == {"msg", "srv"}

\* The options of an interface directive: none, or package.
InterfaceOptions == {EmptyDict, [package |-> "nav_msgs"]}

\* The signatures written: one to four segments, with the kind or another
\* in the middle of three.
Signatures ==
    {"Pose", "geometry_msgs/Pose", "geometry_msgs/msg/Pose",
     "geometry_msgs/srv/Pose", "geometry_msgs/msg/Pose/extra"}

\* SummaryNode.HEADERS, in the order of the dict: (kind, label).
HEADERS ==
    << <<"param", "Parameters">>, <<"sub", "Subscriptions">>,
       <<"pub", "Publishers">>, <<"srv_server", "Service servers">>,
       <<"act_server", "Action servers">>, <<"srv_client", "Service clients">>,
       <<"act_client", "Action clients">>, <<"exec", "Executables">>,
       <<"msg", "Messages">>, <<"srv", "Services">>, <<"action", "Actions">>,
       <<"launch", "Launch files">>, <<"model", "Models">> >>

\* sorted(ComponentNames): the names of the registry, in the order of sorted()
SortedComponentNames == <<"Pose">>

\* make_table: one row per object, sorted by name, each the reference
\* make_refnode(builder, file_name, docname, fullname, contnode, name).
make_table(title, objects, file_name) ==
    LET names == SelectSeq(SortedComponentNames, LAMBDA n : HasKey(objects, n))
    IN  [i \in 1..Len(names) |->
            [fromdoc |-> file_name, refdoc |-> objects[names[i]][1],
             refid |-> objects[names[i]][2], text |-> names[i]]]

\* The names summary nodes are made for: a container of the registry and one
\* that no document declares.
SummaryNames == ContainerNames \cup {"unknown"}

\* The registry after SummaryNode.process: it looks up with get.
RegistryAfterProcess(d, typ, rawsource) == d

\* SummaryNode.process, for the node SummaryNode(rawsource, title=title,
\* typ=typ): the children of the admonition that replaces the node, which are
\* the title and, for each kind of HEADERS that has objects, the label and
\* the table.
process(d, rawsource, title, typ, docname) ==
    LET components == DictGet(d[ComponentsKey(typ)], rawsource, EmptyDict)
        shown == SelectSeq(HEADERS,
                     LAMBDA h : DOMAIN DictGet(components, h[1], EmptyDict) # {})
    IN  <<title>> \o
        [i \in 1..Len(shown) |->
            [label |-> shown[i][2],
             table |-> make_table(shown[i][2],
                                  DictGet(components, shown[i][1], EmptyDict),
                                  docname)]]

\* str.capitalize, on the lower-case words it is called with.
capitalize(s) ==
    IF s = ""
    THEN ""
    ELSE LET c == SubSeq(s, 1, 1)
         IN  (CASE c = "n" -> "N" [] c = "p" -> "P" [] OTHER -> c)
             \o SubSeq(s, 2, Len(s))

\* SummaryNode.__init__: the title given, or the default one when the title
\* is None or empty ("" stands for both).
SummaryNode(rawsource, title, typ) ==
    [rawsource |-> rawsource,
     title |-> IF title # ""
               THEN title
               ELSE capitalize(typ) \o " " \o rawsource \o " summary",
     typ |-> typ]

\* NodeSummaryDirective.run and PackageSummaryDirective.run, which differ by
\* typ: the node made of arguments[0] and arguments[1], or the IndexError
\* that arguments[1] raises on a list of one argument.
SummaryDirective_run(typ, arguments) ==
    IF Len(arguments) < 2
    THEN [raised |-> "IndexError", nodes |-> << >>]
    ELSE [raised |-> "",
          nodes |-> <<SummaryNode(arguments[1], arguments[2], typ)>>]

\* The arguments of a summary directive, which the host accepts when they
\* are one (required_arguments) or two (optional_arguments): the container
\* name, and the title.
SummaryArguments ==
    {<<"talker">>, <<"geometry_msgs">>,
     <<"talker", "Overview">>, <<"geometry_msgs", "Overview">>}

(* ------------------------------ history ------------------------------- *)

\* The keys of the registry: a container is (type, name), a component is
\* (container type, container name, kind, name).
ContainerKey(typ, name) == <<"container", typ, name, "", "">>

ComponentKey(container_typ, container_name, typ, name) ==
    <<"component", container_typ, container_name, typ, name>>

(* ------------------------------ actions ------------------------------- *)

\* The state after setup() under the configuration conf: an empty registry.
InitWith(conf) ==
    /\ data = initial_data
    /\ config = conf
    /\ last = [op |-> "setup", docname |-> "", args |-> << >>, ret |-> "",
               before |-> initial_data]
    /\ nops = 0
    /\ live = EmptyDict
    /\ ref_context = EmptyDict
    /\ declared = EmptyDict

\* setup(): app.add_config_value(name, default, 'html'), conf.py setting nothing.
DefaultConfig ==
    [ros_add_package_names |-> TRUE, ros_msg_reference_version |-> "melodic"]

Init == InitWith(DefaultConfig)

\* The same with conf.py setting ros_msg_reference_version.
InitConf ==
    \E version \in Versions :
        InitWith([DefaultConfig EXCEPT !.ros_msg_reference_version = version])

\* The calls that read the registry and leave it as they find it.  Such a
\* call changes `last` alone, which the next call overwrites: whatever call
\* follows it leads to the state that the same call reaches from the state
\* before it.  Every call is therefore taken after a call that is not one of
\* these (AfterRegistryCall), which leaves the repeated steps out and none
\* of the states.
ReadOnlyCalls == {"resolve_xref", "process"}

AfterRegistryCall == last.op \notin ReadOnlyCalls

\* A container directive of document docname registers its container.
AddContainer ==
    \E docname \in Docs, typ \in ContainerTypes, name \in ContainerNames :
        LET r == add_container(data, docname, name, typ)
        IN  /\ nops < MaxOps
            /\ AfterRegistryCall
            /\ data' = r.data
            /\ last' = [op |-> "add_container", docname |-> docname,
                        args |-> <<name, typ>>, ret |-> r.ret,
                        before |-> data]
            /\ nops' = nops + 1
            /\ live' = DictSet(live, ContainerKey(typ, name), docname)
            /\ declared' = [declared EXCEPT
                                ![docname] = @ \cup {ContainerKey(typ, name)}]
            /\ UNCHANGED <<config, ref_context>>

\* A component directive of document docname registers its component.
AddComponent ==
    \E docname \in Docs, container_typ \in ComponentContainerTypes,
       container_name \in ContainerNames, typ \in ComponentKinds,
       name \in ComponentNames :
        LET r == add_component(data, docname, container_typ, container_name,
                               typ, name)
        IN  /\ nops < MaxOps
            /\ AfterRegistryCall
            /\ data' = r.data
            /\ last' = [op |-> "add_component", docname |-> docname,
                        args |-> <<container_typ, container_name, typ, name>>,
                        ret |-> r.ret, before |-> data]
            /\ nops' = nops + 1
            /\ live' = IF container_typ \in ContainerTypes
                       THEN DictSet(live,
                                ComponentKey(container_typ, container_name,
                                             typ, name), docname)
                       ELSE live
            /\ declared' = IF container_typ \in ContainerTypes
                           THEN [declared EXCEPT
                                    ![docname] = @ \cup
                                        {ComponentKey(container_typ,
                                                      container_name, typ, name)}]
                           ELSE declared
            /\ UNCHANGED <<config, ref_context>>

\* The host evicts document docname before reading it again.
ClearDoc ==
    \E docname \in Docs :
        /\ nops < MaxOps
        /\ AfterRegistryCall
        /\ data' = clear_doc(data, docname)
        /\ last' = [op |-> "clear_doc", docname |-> docname, args |-> << >>,
                    ret |-> "", before |-> data]
        /\ nops' = nops + 1
        /\ live' = DictDel(live, {k \in DOMAIN live : live[k] = docname})
        /\ declared' = [declared EXCEPT ![docname] = {}]
        /\ UNCHANGED <<config, ref_context>>

\* The host resolves one pending reference: the result goes to `last` and
\* the registry is the one the lookups leave, which is the one they found.
ResolveXref ==
    \E typ \in RefTypes, node \in RefNodes : \E target \in RefTargets(typ) :
        /\ AfterRegistryCall
        /\ data' = RegistryAfterResolveXref(data, typ, target, node)
        /\ last' = [op |-> "resolve_xref", docname |-> "",
                    args |-> <<typ, target, node>>,
                    ret |-> resolve_xref(data, typ, target, node),
                    before |-> data]
        /\ UNCHANGED <<config, nops, live, ref_context, declared>>

\* The doctree-resolved handler of document docname, process_summaries,
\* processes one summary node, made by a container directive with the
\* summary option (title 'Summary').
ProcessSummary ==
    \E docname \in Docs, typ \in ContainerTypes, name \in SummaryNames :
        /\ AfterRegistryCall
        /\ data' = RegistryAfterProcess(data, typ, name)
        /\ last' = [op |-> "process", docname |-> docname,
                    args |-> <<name, "Summary", typ>>,
                    ret |-> process(data, name, "Summary", typ, docname),
                    before |-> data]
        /\ UNCHANGED <<config, nops, live, ref_context, declared>>

Next == AddContainer \/ AddComponent \/ ClearDoc \/ ResolveXref \/ ProcessSummary

Spec == Init /\ [][Next]_vars

\* The build under any of the configurations.
SpecConf == InitConf /\ [][Next]_vars

(* ------------------- the documents, read and read again --------------- *)

\* The state after setup(), the declarations of every document recorded.
InitRebuild ==
    /\ data = initial_data
    /\ config = DefaultConfig
    /\ last = [op |-> "setup", docname |-> "", args |-> << >>, ret |-> "",
               before |-> initial_data]
    /\ nops = 0
    /\ live = EmptyDict
    /\ ref_context = EmptyDict
    /\ declared = [docname \in Docs |-> {}]

\* The registrations and the evictions of a build.
NextRebuild == AddContainer \/ AddComponent \/ ClearDoc

SpecRebuild == InitRebuild /\ [][NextRebuild]_vars

(* --------------------- the roles, in a document ----------------------- *)

\* The state after setup() under either value of ros_add_package_names.
InitRoles ==
    \E show \in BOOLEAN :
        InitWith([DefaultConfig EXCEPT !.ros_add_package_names = show])

\* CurrentContainerDirective.run: currentpackage or currentnode with the
\* argument name (an argument has no white space around it for strip to
\* remove).
CurrentContainer ==
    \E typ \in ContainerTypes, name \in ContainerNames \cup {"None"} :
        LET key == "ros:" \o typ
        IN  /\ ref_context' = IF name = "None"
                              THEN DictDel(ref_context, {key})
                              ELSE DictSet(ref_context, key, name)
            /\ last' = [op |-> "currentcontainer", docname |-> "",
                        args |-> <<typ, name>>, ret |-> << >>, before |-> data]
            /\ UNCHANGED <<data, config, nops, live, declared>>

\* A role is written: the host calls process_link with the title and the
\* target it read, which are both the text written when it has no explicit
\* title.  process_link reads env.ref_context and writes to refnode alone,
\* so, as for ResolveXref, a second call in a row reaches no state that a
\* first one does not.
ProcessLink ==
    \E name \in RoleNames, has_explicit_title \in BOOLEAN :
        \E target \in Texts(name) :
            \E title \in IF has_explicit_title THEN ExplicitTitles ELSE {target} :
                /\ last.op # "process_link"
                /\ last' = [op |-> "process_link", docname |-> "",
                            args |-> <<name, has_explicit_title, title, target>>,
                            ret |-> process_link(Roles[name], ref_context,
                                                 has_explicit_title, title,
                                                 target),
                            before |-> data]
                /\ UNCHANGED <<data, config, nops, live, ref_context, declared>>

NextRoles == CurrentContainer \/ ProcessLink

SpecRoles == InitRoles /\ [][NextRoles]_vars

(* -------------------- the declarations of a document ------------------ *)

\* An interface directive of document docname, with one signature: the host
\* calls handle_signature, which parses it with get_container, and then
\* add_target_and_index, which registers the component and appends the
\* fullname to the ids of the signature node.
DeclareInterface ==
    \E docname \in Docs, short_type \in InterfaceKinds,
       options \in InterfaceOptions, sig \in Signatures :
        LET c == InterfaceDescription_get_container(short_type, options,
                                                    ref_context, sig)
            r == add_component(data, docname, "package", c.container,
                               short_type, c.sig)
        IN  /\ nops < MaxOps
            /\ data' = r.data
            /\ last' = [op |-> "interface", docname |-> docname,
                        args |-> <<short_type, options, sig>>,
                        ret |-> [container |-> c.container, sig |-> c.sig,
                                 title |-> InterfaceDescription_title(
                                               short_type, c.container, c.sig),
                                 ids |-> <<r.ret>>, warnings |-> c.warnings],
                        before |-> data]
            /\ nops' = nops + 1
            /\ live' = DictSet(live,
                               ComponentKey("package", c.container, short_type,
                                            c.sig), docname)
            /\ declared' = [declared EXCEPT
                                ![docname] = @ \cup
                                    {ComponentKey("package", c.container,
                                                  short_type, c.sig)}]
            /\ UNCHANGED <<config, ref_context>>

NextDirectives == CurrentContainer \/ DeclareInterface

SpecDirectives == Init /\ [][NextDirectives]_vars

(* ------------------ the current containers of a document -------------- *)

\* The document being read: env.docname.
ReadDoc == "docA"

\* A package or node directive: the host (ObjectDescription.run) calls
\* handle_signature and add_target_and_index, which registers the container,
\* then before_content, then parses the content, whose directives are the
\* steps that follow, and calls transform_content, which appends a summary
\* node under the summary option.
DeclareContainer ==
    \E typ \in ContainerTypes, name \in DirectiveNames, summary \in BOOLEAN :
        LET r == add_container(data, ReadDoc, name, typ)
        IN  /\ nops < MaxOps
            /\ data' = r.data
            /\ ref_context' = before_content(ref_context, typ, name)
            /\ last' = [op |-> "container", docname |-> ReadDoc,
                        args |-> <<typ, name, summary>>,
                        ret |-> [ids |-> <<r.ret>>,
                                 content |-> IF summary
                                             THEN << <<name, "Summary", typ>> >>
                                             ELSE << >>],
                        before |-> data]
            /\ nops' = nops + 1
            /\ live' = DictSet(live, ContainerKey(typ, name), ReadDoc)
            /\ declared' = [declared EXCEPT
                                ![ReadDoc] = @ \cup {ContainerKey(typ, name)}]
            /\ UNCHANGED config

\* A currentpackage or currentnode directive with any of the names.
CurrentContainerNamed ==
    \E typ \in ContainerTypes, name \in DirectiveNames :
        LET key == "ros:" \o typ
        IN  /\ ref_context' = IF name = "None"
                              THEN DictDel(ref_context, {key})
                              ELSE DictSet(ref_context, key, name)
            /\ last' = [op |-> "currentcontainer", docname |-> "",
                        args |-> <<typ, name>>, ret |-> << >>, before |-> data]
            /\ UNCHANGED <<data, config, nops, live, declared>>

\* A component directive with one signature: handle_signature reads the
\* container with get_container and add_target_and_index registers the
\* component under it.
DeclareComponent ==
    \E directive \in DOMAIN ComponentDirectives, sig \in ComponentNames :
        \E options \in
                ComponentOptions(ComponentDirectives[directive].container_name) :
            LET container_name == ComponentDirectives[directive].container_name
                short_type == ComponentDirectives[directive].short_type
                c == ComponentDescription_get_container(container_name, options,
                                                        ref_context, sig)
                r == add_component(data, ReadDoc, container_name, c.container,
                                   short_type, c.sig)
                key == ComponentKey(container_name, c.container, short_type,
                                    c.sig)
            IN  /\ nops < MaxOps
                /\ data' = r.data
                /\ last' = [op |-> "component", docname |-> ReadDoc,
                            args |-> <<directive, options, sig>>,
                            ret |-> [container |-> c.container, sig |-> c.sig,
                                     ids |-> <<r.ret>>],
                            before |-> data]
                /\ nops' = nops + 1
                /\ live' = DictSet(live, key, ReadDoc)
                /\ declared' = [declared EXCEPT ![ReadDoc] = @ \cup {key}]
                /\ UNCHANGED <<config, ref_context>>

\* A nodesummary or packagesummary directive: the host calls run.
SummaryDirective ==
    \E typ \in ContainerTypes, arguments \in SummaryArguments :
        /\ last' = [op |-> "summary", docname |-> ReadDoc,
                    args |-> <<typ, arguments>>,
                    ret |-> SummaryDirective_run(typ, arguments),
                    before |-> data]
        /\ UNCHANGED <<data, config, nops, live, ref_context, declared>>

NextContext ==
    DeclareContainer \/ CurrentContainerNamed \/ DeclareComponent
        \/ SummaryDirective

SpecContext == Init /\ [][NextContext]_vars

(* ------------------------- views of the state ------------------------- *)

\* The keys present in the registry d, and the entry at a key.
ContainerKeys(d) ==
    UNION {{ContainerKey(t, n) : n \in DOMAIN d[t]} : t \in ContainerTypes}

ComponentKeys(d) ==
    UNION {UNION {UNION {{ComponentKey(t, c, k, n) :
                            n \in DOMAIN d[ComponentsKey(t)][c][k]} :
                         k \in DOMAIN d[ComponentsKey(t)][c]} :
                  c \in DOMAIN d[ComponentsKey(t)]} :
           t \in ContainerTypes}

RegistryKeys(d) == ContainerKeys(d) \cup ComponentKeys(d)

EntryAt(d, key) ==
    IF key[1] = "container"
    THEN d[key[2]][key[3]]
    ELSE d[ComponentsKey(key[2])][key[3]][key[4]][key[5]]

\* A registration is (document, key): the call of add_container or of
\* add_component that a directive of the document makes for the key.
Registrations ==
    Docs \X ({ContainerKey(typ, name) :
                 typ \in ContainerTypes, name \in ContainerNames}
             \cup {ComponentKey(container_typ, container_name, typ, name) :
                      container_typ \in ComponentContainerTypes,
                      container_name \in ContainerNames,
                      typ \in ComponentKinds, name \in ComponentNames})

\* The registry after the registration r on the registry d.
Register(d, r) ==
    LET docname == r[1]
        key == r[2]
    IN  IF key[1] = "container"
        THEN add_container(d, docname, key[3], key[2]).data
        ELSE add_component(d, docname, key[2], key[3], key[4], key[5]).data

\* The host reads document docname again: it evicts it, and the directives
\* of the document register the keys again.
RECURSIVE RegisterAll(_, _, _)
RegisterAll(d, docname, keys) ==
    IF keys = {}
    THEN d
    ELSE LET key == CHOOSE k \in keys : TRUE
         IN  RegisterAll(Register(d, <<docname, key>>), docname, keys \ {key})

Rebuild(d, docname, keys) == RegisterAll(clear_doc(d, docname), docname, keys)

\* The key -> (document, anchor) mapping of the registry d.
Mapping(d) == [key \in RegistryKeys(d) |-> EntryAt(d, key)]

\* The keys at which the registry d holds an entry of document docname.
HeldBy(d, docname) == {key \in RegistryKeys(d) : EntryAt(d, key)[1] = docname}

\* The registration the last call made.
LastRegistration ==
    IF last.op = "add_container"
    THEN <<last.docname, ContainerKey(last.args[2], last.args[1])>>
    ELSE <<last.docname,
           ComponentKey(last.args[1], last.args[2], last.args[3], last.args[4])>>

\* The last call was resolve_xref(typ, target, node).
Resolved == last.op = "resolve_xref"
RefTyp == last.args[1]
RefTarget == last.args[2]
RefNode == last.args[3]

\* The last call was process_link of the role LinkRole on LinkText.
Linked == last.op = "process_link"
LinkRole == Roles[last.args[1]]
LinkExplicitTitle == last.args[2]
LinkTitle == last.args[3]
LinkText == last.args[4]

\* The container process_link stored on the reference.
LinkContainer == last.ret.refnode[LinkRole.key]

InterfaceTypes == {"msg", "srv", "action", "field"}

(* ------------------------------- claims ------------------------------- *)

\* C1 (as claimed): every entry present in the registry is the most recent
\* registration of its key, made by a document that was not evicted since.
C1_EntriesAreLiveRegistrations ==
    \A key \in RegistryKeys(data) :
        /\ HasKey(live, key)
        /\ live[key] = EntryAt(data, key)[1]

\* C2 (as claimed): after clear_doc(d) the registry holds no container entry
\* and no component entry attributed to d.
C2_ClearDocRemovesEveryEntry ==
    last.op = "clear_doc" =>
        \A key \in RegistryKeys(data) : EntryAt(data, key)[1] # last.docname

\* C3: clear_doc(A) keeps every entry of a document B # A at its key with its
\* value, and every reference that resolved to an entry of such a document
\* resolves to the same result afterwards.
C3_ClearDocKeepsOtherDocuments ==
    last.op = "clear_doc" =>
        /\ \A key \in RegistryKeys(last.before) :
               EntryAt(last.before, key)[1] # last.docname =>
                   /\ key \in RegistryKeys(data)
                   /\ EntryAt(data, key) = EntryAt(last.before, key)
        /\ \A typ \in RefTypes, node \in RefNodes :
               \A target \in RefTargets(typ) :
                   LET r == resolve_xref(last.before, typ, target, node)
                   IN  (r.kind = "internal" /\ r.refdoc # last.docname) =>
                           resolve_xref(data, typ, target, node) = r

\* clear_doc ran on a registry holding an entry of the evicted document and a
\* component of another document.
C3_Witness ==
    /\ last.op = "clear_doc"
    /\ \E key \in RegistryKeys(last.before) :
           EntryAt(last.before, key)[1] = last.docname
    /\ \E key \in ComponentKeys(last.before) :
           /\ EntryAt(last.before, key)[1] # last.docname
           /\ key \in ComponentKeys(data)

\* The round trip of C4 for the component kinds and container types in ok:
\* a reference of kind typ to target whose only container context is the
\* container, resolved while the component's registration by d is live,
\* gives an internal link to d with the anchor container.typ.target.
RoundTrip(ok) ==
    Resolved =>
        \A ct \in ContainerTypes :
            (/\ <<ct, RefTyp>> \in ok
             /\ DOMAIN RefNode = {"ros:" \o ct}
             /\ HasKey(live, ComponentKey(ct, RefNode["ros:" \o ct], RefTyp,
                                          RefTarget)))
            => /\ last.ret.kind = "internal"
               /\ last.ret.refdoc =
                      live[ComponentKey(ct, RefNode["ros:" \o ct], RefTyp,
                                        RefTarget)]
               /\ last.ret.refid =
                      RefNode["ros:" \o ct] \o "." \o RefTyp \o "." \o RefTarget

\* C4 (as claimed): the round trip holds for both container types and any kind.
C4_RoundTripAnyKind == RoundTrip(ContainerTypes \X RefTypes)

\* C4 (amended): the round trip holds for every kind but field under a
\* package, and for every kind but msg, srv, action and field under a node.
C4_RoundTrip ==
    RoundTrip({p \in ContainerTypes \X RefTypes :
                  /\ p[2] # "field"
                  /\ p[1] = "node" => p[2] \notin InterfaceTypes})

\* A param reference with a node context was resolved to the component that
\* docB registered under that node.
C4_Witness ==
    /\ Resolved
    /\ RefTyp = "param"
    /\ DOMAIN RefNode = {"ros:node"}
    /\ HasKey(live, ComponentKey("node", RefNode["ros:node"], "param", RefTarget))
    /\ live[ComponentKey("node", RefNode["ros:node"], "param", RefTarget)] = "docB"
    /\ last.ret.kind = "internal"

\* C6 (as claimed): a msg reference to Pose under package geometry_msgs that
\* finds no registered component gives the external link whose URL carries
\* the configured ros_msg_reference_version.
C6_FallbackUrlUsesConfiguredVersion ==
    (/\ Resolved
     /\ RefTyp = "msg"
     /\ RefTarget = "Pose"
     /\ HasKey(RefNode, "ros:package")
     /\ RefNode["ros:package"] = "geometry_msgs"
     /\ ComponentKey("package", "geometry_msgs", "msg", "Pose")
            \notin ComponentKeys(data))
    => /\ last.ret.kind = "external"
       /\ last.ret.refuri =
              "http://docs.ros2.org/" \o config.ros_msg_reference_version
                  \o "/api/geometry_msgs/msg/Pose.html"

\* C7: a msg, srv, action or field reference that carries a package context
\* gives an internal link to the entry package_components[package][kind][target]
\* when there is one (kind being msg for a field reference, as the lookup
\* has it) and an external link otherwise, and in both cases no warning.
C7_InterfaceReferenceAlwaysLinks ==
    (Resolved /\ RefTyp \in InterfaceTypes /\ HasKey(RefNode, "ros:package")) =>
        LET package == RefNode["ros:package"]
            kind == IF RefTyp = "field" THEN "msg" ELSE RefTyp
            key == ComponentKey("package", package, kind, RefTarget)
        IN  /\ last.ret.warnings = << >>
            /\ last.ret.kind \in {"internal", "external"}
            /\ key \in ComponentKeys(data) =>
                   /\ last.ret.kind = "internal"
                   /\ last.ret.refdoc = EntryAt(data, key)[1]
                   /\ last.ret.refid = EntryAt(data, key)[2]
            /\ key \notin ComponentKeys(data) => last.ret.kind = "external"

\* A field reference under a package context was resolved to a registered
\* message of that package.
C7_Witness ==
    /\ Resolved
    /\ RefTyp = "field"
    /\ HasKey(RefNode, "ros:package")
    /\ last.ret.kind = "internal"

\* The container type resolve_xref looks a reference up under: node when the
\* reference carries a node context, package otherwise.
LookupType == IF HasKey(RefNode, "ros:node") THEN "node" ELSE "package"

\* C8: a reference of a kind other than msg, srv, action and field that
\* carries a node or package context, and whose component is not in the
\* table, gives nothing, with the one warning
\* "Could not find <kind> <target> for <container type> <container>", no
\* error, and the registry as it was.
C8_MissingComponentWarns ==
    (/\ Resolved
     /\ RefTyp \notin InterfaceTypes
     /\ HasKey(RefNode, "ros:node") \/ HasKey(RefNode, "ros:package")
     /\ ComponentKey(LookupType, RefNode["ros:" \o LookupType], RefTyp, RefTarget)
            \notin ComponentKeys(last.before))
    => /\ last.ret.kind = "none"
       /\ last.ret.warnings =
              << "Could not find " \o RefTyp \o " " \o RefTarget \o " for "
                     \o LookupType \o " " \o RefNode["ros:" \o LookupType] >>
       /\ data = last.before

\* A param reference was resolved under a node whose param table exists and
\* is empty: the container and the kind are there, the name is missing.
C8_Witness ==
    /\ Resolved
    /\ RefTyp = "param"
    /\ HasKey(RefNode, "ros:node")
    /\ HasKey(data.node_components, RefNode["ros:node"])
    /\ HasKey(data.node_components[RefNode["ros:node"]], "param")
    /\ ~HasKey(data.node_components[RefNode["ros:node"]]["param"], RefTarget)
    /\ last.ret.kind = "none"
    /\ Len(last.ret.warnings) = 1

\* C9 (as claimed): resolve_xref ends with an internal link, an external link
\* or nothing, whatever the reference and the registry, and raises nothing.
C9_ResolveXrefNeverRaises ==
    Resolved => last.ret.kind \in {"internal", "external", "none"}

\* C10: add_container(name, typ) returns typ.name and leaves the entry
\* (current document, typ.name) at (typ, name), every other container entry
\* and both component tables as they were; when the key already held an entry
\* of the same document, the registry is as it was and the anchor returned is
\* the one that entry holds.
C10_AddContainerTwice ==
    last.op = "add_container" =>
        LET name == last.args[1]
            typ == last.args[2]
            anchor == typ \o "." \o name
        IN  /\ last.ret = anchor
            /\ HasKey(data[typ], name)
            /\ data[typ][name] = <<last.docname, anchor>>
            /\ RegistryKeys(data) =
                   RegistryKeys(last.before) \cup {ContainerKey(typ, name)}
            /\ \A key \in RegistryKeys(last.before) \ {ContainerKey(typ, name)} :
                   EntryAt(data, key) = EntryAt(last.before, key)
            /\ data.node_components = last.before.node_components
            /\ data.package_components = last.before.package_components
            /\ (/\ HasKey(last.before[typ], name)
                /\ last.before[typ][name][1] = last.docname)
               => /\ data = last.before
                  /\ last.ret = last.before[typ][name][2]

\* A document registered a container that it had registered before, in a
\* registry that holds a component too.
C10_Witness ==
    /\ last.op = "add_container"
    /\ HasKey(last.before[last.args[2]], last.args[1])
    /\ last.before[last.args[2]][last.args[1]][1] = last.docname
    /\ ComponentKeys(data) # {}

\* C11: add_component returns container_name.kind.name; with a container
\* type other than package and node the registry is as it was; with package
\* or node the entry (current document, fullname) is at
\* (container type, container name, kind, name), and the container tables,
\* the other component table and every other component entry are as they
\* were.
C11_AddComponentFrame ==
    last.op = "add_component" =>
        LET container_typ == last.args[1]
            container_name == last.args[2]
            typ == last.args[3]
            name == last.args[4]
            fullname == container_name \o "." \o typ \o "." \o name
            key == ComponentKey(container_typ, container_name, typ, name)
        IN  /\ last.ret = fullname
            /\ data.package = last.before.package
            /\ data.node = last.before.node
            /\ data.objects = last.before.objects
            /\ container_typ \notin {"package", "node"} => data = last.before
            /\ container_typ \in {"package", "node"} =>
                   /\ RegistryKeys(data) = RegistryKeys(last.before) \cup {key}
                   /\ EntryAt(data, key) = <<last.docname, fullname>>
                   /\ \A other \in RegistryKeys(last.before) \ {key} :
                          EntryAt(data, other) = EntryAt(last.before, other)
                   /\ \A c \in ContainerTypes \ {container_typ} :
                          data[ComponentsKey(c)] = last.before[ComponentsKey(c)]

\* add_component ran with the container type launch on a registry that
\* holds a component.
C11_Witness ==
    /\ last.op = "add_component"
    /\ last.args[1] = "launch"
    /\ ComponentKeys(last.before) # {}

\* C12: the registration just made, and any other registration r, applied to
\* the registry as it was before: with different keys the two orders give the
\* same registry; with the same container key and two different documents
\* the two orders give different entries at the key, each the entry of the
\* document that registered later.
C12_OrderSensitiveOnEqualKeys ==
    last.op \in {"add_container", "add_component"} =>
        \A r \in Registrations :
            LET made == LastRegistration
                key == made[2]
                thenR == Register(Register(last.before, made), r)
                thenMade == Register(Register(last.before, r), made)
            IN  /\ Register(last.before, made) = data
                /\ r[2] # key => thenR = thenMade
                /\ (r[2] = key /\ key[1] = "container" /\ r[1] # made[1]) =>
                       /\ EntryAt(thenR, key) # EntryAt(thenMade, key)
                       /\ EntryAt(thenR, key)[1] = r[1]
                       /\ EntryAt(thenMade, key)[1] = made[1]

\* A document registered a container over the entry that another document
\* held at the same key, in a registry that holds a component too.
C12_Witness ==
    /\ last.op = "add_container"
    /\ HasKey(last.before[last.args[2]], last.args[1])
    /\ last.before[last.args[2]][last.args[1]][1] # last.docname
    /\ data[last.args[2]][last.args[1]][1] = last.docname
    /\ ComponentKeys(last.before) # {}

\* C13 (as claimed): a field reference with a package context whose target
\* is registered under that package as a message, a service or an action
\* gives the internal link (document, fullname) of such an entry.
C13_FieldResolvesToAnyInterfaceKind ==
    (Resolved /\ RefTyp = "field" /\ HasKey(RefNode, "ros:package")) =>
        LET keys == {ComponentKey("package", RefNode["ros:package"], kind,
                                  RefTarget) : kind \in {"msg", "srv", "action"}}
                        \cap ComponentKeys(data)
        IN  keys # {} =>
                /\ last.ret.kind = "internal"
                /\ \E key \in keys :
                       <<last.ret.refdoc, last.ret.refid>> = EntryAt(data, key)

\* C13 (amended): a field reference with a package context is looked up as
\* a message: a target registered under that package as a message gives the
\* internal link (document, fullname) of that message; a target not
\* registered as a message, registered as a service or not, gives the
\* external link of the message.
C13_FieldResolvesAsMessage ==
    (Resolved /\ RefTyp = "field" /\ HasKey(RefNode, "ros:package")) =>
        LET package == RefNode["ros:package"]
            key == ComponentKey("package", package, "msg", RefTarget)
        IN  /\ key \in ComponentKeys(data) =>
                   /\ last.ret.kind = "internal"
                   /\ <<last.ret.refdoc, last.ret.refid>> = EntryAt(data, key)
                   /\ last.ret.refid = package \o ".msg." \o RefTarget
            /\ key \notin ComponentKeys(data) =>
                   /\ last.ret.kind = "external"
                   /\ last.ret.refuri =
                          "http://docs.ros2.org/galactic/api/" \o package
                              \o "/msg/" \o RefTarget \o ".html"

\* A field reference was resolved under a package that holds the target as
\* a message and as a service, and got the link of the message.
C13_Witness ==
    /\ Resolved
    /\ RefTyp = "field"
    /\ HasKey(RefNode, "ros:package")
    /\ {ComponentKey("package", RefNode["ros:package"], kind, RefTarget) :
            kind \in {"msg", "srv"}} \subseteq ComponentKeys(data)
    /\ last.ret.kind = "internal"
    /\ last.ret.refid = RefNode["ros:package"] \o ".msg." \o RefTarget

\* C14: a pkg, package or node reference without container context gives
\* the internal link (document, type.target) of the container entry at
\* (type, target), type being package for pkg, when there is one, and
\* otherwise nothing, without warning or error; a pkg reference gives what
\* the package reference to the same target gives.
C14_PlainContainerReference ==
    (Resolved /\ RefTyp \in {"pkg", "package", "node"} /\ DOMAIN RefNode = {}) =>
        LET typ == IF RefTyp = "pkg" THEN "package" ELSE RefTyp
            key == ContainerKey(typ, RefTarget)
        IN  /\ key \in ContainerKeys(data) =>
                   /\ last.ret.kind = "internal"
                   /\ last.ret.refdoc = EntryAt(data, key)[1]
                   /\ last.ret.refdoc = live[key]
                   /\ last.ret.refid = typ \o "." \o RefTarget
            /\ key \notin ContainerKeys(data) =>
                   /\ last.ret.kind = "none"
                   /\ last.ret.warnings = << >>
            /\ RefTyp = "pkg" =>
                   last.ret = resolve_xref(data, "package", RefTarget, RefNode)

\* A pkg reference without container context was resolved to the package
\* that docB registered, the node of the same name being registered too.
C14_Witness ==
    /\ Resolved
    /\ RefTyp = "pkg"
    /\ DOMAIN RefNode = {}
    /\ HasKey(data.node, RefTarget)
    /\ last.ret.kind = "internal"
    /\ last.ret.refdoc = "docB"

\* C15 (as claimed): for a reference without explicit title, on a role that
\* shows the container by default a text with a leading ~ gives the bare
\* target as title; on a role that hides it by default a text with a
\* leading @, the container not being empty, gives the title container,
\* type if the role has one, target, joined by the role's separator; in both
\* cases the target and the attributes of the reference are those that the
\* text without its first character gives.
C15_PrefixTogglesTitle ==
    (Linked /\ ~LinkExplicitTitle) =>
        LET role == LinkRole
            unprefixed == process_link(role, ref_context, FALSE,
                                       SubSeq(LinkText, 2, Len(LinkText)),
                                       SubSeq(LinkText, 2, Len(LinkText)))
            toggled == \/ role.show_container /\ StartsWith(LinkText, "~")
                       \/ ~role.show_container /\ StartsWith(LinkText, "@")
        IN  /\ (role.show_container /\ StartsWith(LinkText, "~")) =>
                   last.ret.title = last.ret.target
            /\ (/\ ~role.show_container
                /\ StartsWith(LinkText, "@")
                /\ LinkContainer # "") =>
                   last.ret.title =
                       LinkContainer \o role.sep
                           \o (IF role.show_type # ""
                               THEN role.show_type \o role.sep ELSE "")
                           \o last.ret.target
            /\ toggled =>
                   /\ last.ret.target = unprefixed.target
                   /\ last.ret.refnode = unprefixed.refnode

\* C16: on an interface role, a text made of a prefix character or none, a
\* qualifier of at most two segments or none, a type name t and a marker
\* gives the target and the reference attributes that the same text without
\* the marker gives, when the marker is an array marker, or a string length
\* after string or wstring; the target is then t, and for a string length
\* and an array marker after another type name it is t with the length.
C16_MarkersAreStripped ==
    (Linked /\ LinkRole.class \in InterfaceRoleClasses) =>
        \A p \in Prefixes, q \in (InterfaceQualifiers \ {"std_msgs/msg/extra/"}),
           t \in BaseTypes, m \in Markers :
            (LinkText = p \o q \o t \o m /\ (LinkExplicitTitle => p = "")) =>
                LET title(x) == IF LinkExplicitTitle THEN LinkTitle ELSE x
                    without(x) == process_link(LinkRole, ref_context,
                                               LinkExplicitTitle,
                                               title(p \o q \o x), p \o q \o x)
                    strings == {"string", "wstring"}
                IN  /\ m \in {"", "[]", "[10]", "[<=10]"} =>
                           /\ last.ret.target = t
                           /\ last.ret.target = without(t).target
                           /\ last.ret.refnode = without(t).refnode
                    /\ (m \in {"<=64", "<=64[]"} /\ t \in strings) =>
                           /\ last.ret.target = t
                           /\ last.ret.target = without(t).target
                           /\ last.ret.refnode = without(t).refnode
                    /\ (m = "<=64[]" /\ t \notin strings) =>
                           /\ last.ret.target = t \o "<=64"
                           /\ last.ret.target = without(t \o "<=64").target
                           /\ last.ret.refnode = without(t \o "<=64").refnode

\* A field reference to an array of bounded length of a type of another
\* package was made while the document had a current package.
C16_Witness ==
    /\ Linked
    /\ last.args[1] = "field"
    /\ LinkText = "std_msgs/String[<=10]"
    /\ HasKey(ref_context, "ros:package")
    /\ last.ret.target = "String"
    /\ LinkContainer = "std_msgs"

\* C17 (as claimed): an interface directive whose signature has more than
\* three segments warns and registers, for its document, a component under
\* the first segment as container and one of the later segments as name, and
\* nothing under the whole signature; one whose signature has three segments
\* with a middle segment that is not the directive's kind warns and
\* registers the last segment under the first.
C17_ExcessSegmentsIgnored ==
    last.op = "interface" =>
        LET short_type == last.args[1]
            sig == last.args[3]
            rs == Split(sig, "/")
        IN  /\ Len(rs) > 3 =>
                   /\ last.ret.warnings # << >>
                   /\ \A key \in ComponentKeys(data) : key[5] # sig
                   /\ \E i \in 2..Len(rs) :
                          LET key == ComponentKey("package", rs[1], short_type,
                                                  rs[i])
                          IN  /\ key \in ComponentKeys(data)
                              /\ EntryAt(data, key)[1] = last.docname
            /\ (Len(rs) = 3 /\ rs[2] # short_type) =>
                   LET key == ComponentKey("package", rs[1], short_type, rs[3])
                   IN  /\ last.ret.warnings # << >>
                       /\ key \in ComponentKeys(data)
                       /\ EntryAt(data, key) =
                              <<last.docname,
                                rs[1] \o "." \o short_type \o "." \o rs[3]>>

\* C18 (as claimed): a reference without explicit title, written without ~
\* and @, whose container is not empty, has the title container, type if
\* the role has one, target, joined by the role's separator, when
\* ros_add_package_names is true, and the bare target when it is false.
C18_OptionControlsPrefix ==
    (/\ Linked
     /\ ~LinkExplicitTitle
     /\ ~StartsWith(LinkText, "~")
     /\ ~StartsWith(LinkText, "@")
     /\ LinkContainer # "") =>
        IF config.ros_add_package_names
        THEN last.ret.title =
                 LinkContainer \o LinkRole.sep
                     \o (IF LinkRole.show_type # ""
                         THEN LinkRole.show_type \o LinkRole.sep ELSE "")
                     \o last.ret.target
        ELSE last.ret.title = last.ret.target

\* C19: resolve_xref and SummaryNode.process leave the registry as they
\* find it, whatever they return: the container tables and both component
\* tables are the same, and the package or container they looked up and did
\* not find has no entry afterwards.
C19_LookupsAreReadOnly ==
    last.op \in ReadOnlyCalls =>
        /\ data = last.before
        /\ \A table \in DOMAIN initial_data : data[table] = last.before[table]
        /\ (last.op = "resolve_xref" /\ HasKey(RefNode, "ros:package")) =>
               (HasKey(data.package_components, RefNode["ros:package"])
                   <=> HasKey(last.before.package_components,
                              RefNode["ros:package"]))
        /\ last.op = "process" =>
               (HasKey(data[ComponentsKey(last.args[3])], last.args[1])
                   <=> HasKey(last.before[ComponentsKey(last.args[3])],
                              last.args[1]))

\* A msg reference under a package that has no entry in a registry that is
\* not empty got the external link.
C19_Witness ==
    /\ Resolved
    /\ RefTyp = "msg"
    /\ HasKey(RefNode, "ros:package")
    /\ ~HasKey(last.before.package_components, RefNode["ros:package"])
    /\ RegistryKeys(last.before) # {}
    /\ last.ret.kind = "external"

\* C20: a text that names a container before the target (container, role's
\* separator, target; or, on an interface role, package/kind/target) gives
\* a reference whose container is the one written, whatever the current
\* container is, marked explicit; a text that names none gives the current
\* container of the role's key, or '' when there is none, not marked
\* explicit; and, without explicit title, the same text after another prefix
\* character, or none, gives the same target and reference attributes.
C20_QualifierSuppliesContainer ==
    Linked =>
        LET role == LinkRole
            interface == role.class \in InterfaceRoleClasses
            targets == IF interface
                       THEN {t \o m : t \in BaseTypes, m \in Markers}
                       ELSE ComponentTargets
            kinds == IF interface THEN {"", "msg", "srv"} ELSE {""}
            kept(p) == IF LinkExplicitTitle THEN p ELSE ""
            again(text) == process_link(role, ref_context, FALSE, text, text)
        IN  \A p \in Prefixes, t \in targets :
                /\ \A c \in {"talker", "std_msgs"}, k \in kinds :
                       LET rest == c \o role.sep
                                     \o (IF k # "" THEN k \o role.sep ELSE "")
                                     \o t
                       IN  LinkText = p \o rest =>
                               /\ LinkContainer = kept(p) \o c
                               /\ last.ret.refnode["ros:explicit_container"]
                               /\ ~interface => last.ret.target = t
                               /\ ~LinkExplicitTitle =>
                                      \A other \in Prefixes :
                                          /\ again(other \o rest).target
                                                 = last.ret.target
                                          /\ again(other \o rest).refnode
                                                 = last.ret.refnode
                /\ LinkText = p \o t =>
                       /\ LinkContainer = DictGet(ref_context, role.key, "")
                       /\ ~last.ret.refnode["ros:explicit_container"]
                       /\ ~interface => last.ret.target = kept(p) \o t
                       /\ ~LinkExplicitTitle =>
                              \A other \in Prefixes :
                                  /\ again(other \o t).target = last.ret.target
                                  /\ again(other \o t).refnode = last.ret.refnode

\* A param reference that names the node talker was made while the current
\* node of the document was another one.
C20_Witness ==
    /\ Linked
    /\ last.args[1] = "param"
    /\ LinkText = "@talker:speed"
    /\ ~LinkExplicitTitle
    /\ HasKey(ref_context, "ros:node")
    /\ ref_context["ros:node"] # "talker"
    /\ LinkContainer = "talker"

\* C21 (as claimed): a document B has just registered a key that held the
\* entry of another document A: the registry holds B's entry at the key;
\* clear_doc(B) on it leaves no entry at the key; clear_doc(A) on it leaves
\* B's entry at the key.
C21_ShadowedDeclarationsAreNotRestored ==
    (/\ last.op \in {"add_container", "add_component"}
     /\ LastRegistration[2] \in RegistryKeys(last.before)
     /\ EntryAt(last.before, LastRegistration[2])[1] # last.docname) =>
        LET key == LastRegistration[2]
            A == EntryAt(last.before, key)[1]
            B == last.docname
        IN  /\ key \in RegistryKeys(data)
            /\ EntryAt(data, key)[1] = B
            /\ key \notin RegistryKeys(clear_doc(data, B))
            /\ key \in RegistryKeys(clear_doc(data, A))
            /\ EntryAt(clear_doc(data, A), key) = EntryAt(data, key)

NamesContainer(l, typ) ==
    /\ l.op \in {"container", "currentcontainer"}
    /\ l.args[1] = typ

\* The directive the last step ran declared a component of a container of
\* type typ without the container option.
DeclaresComponentOf(l, typ) ==
    /\ l.op = "component"
    /\ ComponentDirectives[l.args[1]].container_name = typ
    /\ l.args[2] = EmptyDict

ListedUnder(d, typ, name, h) ==
    {key \in ComponentKeys(d) : key[2] = typ /\ key[3] = name /\ key[4] = h[1]}

ExpectedSections(d, typ, name, docname) ==
    LET shown == SelectSeq(HEADERS,
                     LAMBDA h : ListedUnder(d, typ, name, h) # {})
    IN  [i \in 1..Len(shown) |->
            [label |-> shown[i][2],
             table |->
                 LET names == SelectSeq(SortedComponentNames,
                                  LAMBDA n : \E key \in ListedUnder(d, typ, name,
                                                                   shown[i]) :
                                                 key[5] = n)
                 IN  [j \in 1..Len(names) |->
                         LET entry == EntryAt(d, ComponentKey(typ, name,
                                                  shown[i][1], names[j]))
                         IN  [fromdoc |-> docname, refdoc |-> entry[1],
                              refid |-> entry[2], text |-> names[j]]]]]

\* C24 (as claimed): a nodesummary or packagesummary directive with one or
\* two arguments raises nothing and makes one summary node; with the name
\* alone the title of the node is '<Type> <name> summary'; processed, the
\* node gives its title and then, for each kind of HEADERS in order that has
\* components registered under the container, the label of the kind and
\* those components sorted by name.
C24_SummaryTitleIsOptional ==
    last.op = "summary" =>
        LET typ == last.args[1]
            arguments == last.args[2]
            name == arguments[1]
        IN  /\ last.ret.raised = ""
            /\ Len(last.ret.nodes) = 1
            /\ LET node == last.ret.nodes[1]
               IN  /\ Len(arguments) = 1 =>
                          node.title = (IF typ = "node" THEN "Node" ELSE "Package")
                                           \o " " \o name \o " summary"
                   /\ process(data, node.rawsource, node.title, node.typ,
                              last.docname)
                          = <<node.title>>
                                \o ExpectedSections(data, typ, name, last.docname)

====
